---- MODULE Spec2Model ----
(***************************************************************************)
(* Response operations of py_gnome/gnome/weatherers/roc.py (Burn, Skim,    *)
(* Response._remove_mass_simple) as a state machine.                       *)
(*                                                                         *)
(* Arithmetic.  The program computes in floating point; the model computes *)
(* in fixed point over the integers:                                       *)
(*   - times are whole seconds, time_to_fill is rounded up to a whole      *)
(*     second (so "time_to_fill > _time_remaining" compares exactly);      *)
(*   - amounts (boom capacity, collected, burned, masses) are whole units, *)
(*     quotients are truncated;                                            *)
(*   - rates are in units of 1e-5, oil thickness in units of 1e-8 inch,    *)
(*     the swath width in tenths of a foot, fractions in percent.          *)
(* A division by zero is either a raised ZeroDivisionError (Python float   *)
(* operands) or the IEEE result inf/nan (numpy float64 operands); where    *)
(* the source does not fix the operand type both outcomes are modelled.    *)
(* A nan that reaches the operation's state is recorded as the fault       *)
(* "NaN" and ends the behaviour, as a raised exception does.               *)
(***************************************************************************)
EXTENDS Integers, Sequences, FiniteSets, TLC

VARIABLES
    pc,            \* position of the host's run loop for the Burn operation
    burn,          \* the Burn operation's attributes
    sc,            \* the spill container: substance batches, oil film, ledger
    time_step,     \* argument of the current prepare_for_model_step
    model_time,    \* the host's model time (seconds)
    steps,         \* number of steps taken (bounded)
    runs,          \* number of prepare_for_model_run calls (bounded)
    hist,          \* history of the current step (observations only)
    skim,          \* the Skim operation's attributes
    rm,            \* a call of _remove_mass_simple: arguments and result
    disperse,      \* the Disperse operation and its Platform
    gate,          \* a call of _is_active: arguments and result
    ctor,          \* a constructor call: class, units argument and outcome
    shared         \* two Burn operations on one ledger, in one step

vars == <<pc, burn, sc, time_step, model_time, steps, runs, hist, skim, rm,
          disperse, gate, ctor, shared>>

(***************************************************************************)
(* Bounds of the exploration                                               *)
(***************************************************************************)
MaxSteps == 4
MaxRuns == 2

TimeSteps == {900, 3600, 7200}
\* oil film factor: thickness (1e-8 in) per unit of mean element mass;
\* 0 stands for "no element has a positive area"
Films == {0, 73}
Throughputs == {0, 100}
\* on-scene timeseries, (start, stop) in seconds; the last one has its
\* start times in descending order and its intervals overlapping
TimeSeriesSet ==
    { << <<0, 30000>> >>,
      << <<900, 9000>> >>,
      << <<900, 9000>>, <<0, 1800>> >> }

(***************************************************************************)
(* Values                                                                  *)
(***************************************************************************)
\* Python's None, and a value that is set: an attribute that can be None
\* (or can be missing) holds None or Some(v)
None == <<>>
Some(v) == <<v>>

Min(a, b) == IF a <= b THEN a ELSE b

RECURSIVE SumSeq(_)
SumSeq(s) == IF s = <<>> THEN 0 ELSE Head(s) + SumSeq(Tail(s))

\* q rounded up, for d > 0 and n >= 0
CeilDiv(n, d) == (n + d - 1) \div d

(***************************************************************************)
(* Substance data.  A batch (the "data" of one substance) holds the arrays *)
(* mass (one entry per element) and mass_components (one row per element). *)
(***************************************************************************)
\* numpy: mass_components.sum(1), the row sums
RowSums(mc) == [i \in 1..Len(mc) |-> SumSeq(mc[i])]

Data(mc) == [mass |-> RowSums(mc), mass_components |-> mc]

\* the concatenation of the mass arrays of all batches: sc['mass']
RECURSIVE AllMass(_)
AllMass(batches) ==
    IF batches = <<>> THEN <<>>
    ELSE Head(batches).mass \o AllMass(Tail(batches))

\* len(sc): number of elements in the spill container
NumLE(s) == Len(AllMass(s.batches))

\* sc['mass'].mean(), truncated
MeanMass(s) == SumSeq(AllMass(s.batches)) \div NumLE(s)

(***************************************************************************)
(* Response._get_thickness: oil thickness in 1e-8 inch.  The factor        *)
(* 1 / (density * (1 - frac_water) * mean area), converted to inches, is   *)
(* the container's film; film = 0 models area.any() being false.           *)
(***************************************************************************)
_get_thickness(s) ==
    IF s.film > 0 THEN MeanMass(s) * s.film ELSE 0

(***************************************************************************)
(* Response._remove_mass_simple.  total_mass is a numpy float64, so        *)
(* amount / total_mass with total_mass = 0 is inf for amount > 0 and nan   *)
(* for amount = 0 (-inf for amount < 0): min(inf, 1.0) is 1.0, while       *)
(* min(nan, 1.0) is nan and (1 - (-inf)) * 0 is nan.  A nan array entry is *)
(* the value NaN (masses are otherwise never negative).                    *)
(***************************************************************************)
NaN == -1

\* ScaleKept without the cap min(.., 1.0) on the removed fraction
ScaleKept_uncapped(x, amount, total_mass) ==
    (x * (total_mass - amount)) \div total_mass

\* (1 - rm_mass_frac) * x with rm_mass_frac = min(amount / total_mass, 1.0),
\* for total_mass > 0, truncated
ScaleKept(x, amount, total_mass) ==
    (x * (total_mass - Min(amount, total_mass))) \div total_mass

_remove_mass_simple(data, amount) ==
    LET total_mass == SumSeq(data.mass)
        mc == data.mass_components
        scaled ==
            [i \in 1..Len(mc) |->
                [j \in 1..Len(mc[i]) |->
                    IF total_mass = 0
                    THEN (IF amount > 0 THEN 0 * mc[i][j] ELSE NaN)
                    ELSE ScaleKept(mc[i][j], amount, total_mass)]]
    IN  [mass_components |-> scaled,
         mass |-> [i \in 1..Len(mc) |->
                     IF total_mass = 0 /\ amount <= 0 THEN NaN
                     ELSE SumSeq(scaled[i])]]

(***************************************************************************)
(* Burn.weather_elements, the loop over the substance batches: every batch *)
(* that holds elements adds to the ledger and has mass removed.            *)
(***************************************************************************)
RECURSIVE BurnWeatherBatches(_, _, _, _)
BurnWeatherBatches(batches, mb, ts_collected, ts_burned) ==
    IF batches = <<>> THEN [batches |-> <<>>, mass_balance |-> mb]
    ELSE
      LET data == Head(batches)
          skip == Len(data.mass) = 0
          mb1 == IF ~skip /\ ts_collected # 0
                 THEN [mb EXCEPT !.boomed = @ + ts_collected,
                                 !.id = @ + ts_collected]
                 ELSE mb
          data1 == IF ~skip /\ ts_collected # 0
                   THEN _remove_mass_simple(data, ts_collected)
                   ELSE data
          mb2 == IF ~skip /\ ts_burned # 0
                 THEN [mb1 EXCEPT !.burned = @ + ts_burned,
                                  !.boomed = @ - ts_burned]
                 ELSE mb1
          rest == BurnWeatherBatches(Tail(batches), mb2, ts_collected, ts_burned)
      IN  [batches |-> <<data1>> \o rest.batches,
           mass_balance |-> rest.mass_balance]

(***************************************************************************)
(* Burn: construction and prepare_for_model_run                            *)
(***************************************************************************)
\* constructor arguments explored: lengths in feet, boom_draft in inches,
\* speed in knots; throughput (percent) and timeseries are drawn in Init
BurnGeometries ==
    { [offset |-> 1000, boom_length |-> 97, boom_draft |-> 14, speed |-> 1],
      [offset |-> 4000, boom_length |-> 97, boom_draft |-> 14, speed |-> 1] }

\* Attributes that hold None, or that do not exist, until
\* prepare_for_model_run or a phase handler assigns them are 0 here when
\* every read of them follows an assignment; _burn_time (tested against
\* None) and _is_boom_full (never created by __init__, which creates
\* _is_boom_filled instead) keep the distinction.
Burn__init__(g, throughput, timeseries) ==
    [offset |-> g.offset,
     boom_length |-> g.boom_length,
     boom_draft |-> g.boom_draft,
     speed |-> g.speed,
     throughput |-> throughput,
     timeseries |-> timeseries,
     swath_width |-> 0,
     area |-> 0,
     boom_capacity |-> 0,
     offset_time |-> 0,
     is_collecting |-> FALSE,
     is_burning |-> FALSE,
     is_boom_filled |-> FALSE,
     is_transiting |-> FALSE,
     is_cleaning |-> FALSE,
     time_collecting_in_sim |-> 0,
     total_burns |-> 0,
     time_burning |-> 0,
     ts_burned |-> 0,
     ts_collected |-> 0,
     burn_time |-> None,
     is_boom_full |-> None,
     active |-> FALSE,
     report |-> <<>>,
     area_coverage_rate |-> 0,
     boom_capacity_remaining |-> 0,
     burn_rate |-> 0,
     burn_time_remaining |-> 0,
     offset_time_remaining |-> 0,
     cleaning_time_remaining |-> 0,
     time_remaining |-> 0]

\* 0.3 * boom_length, in tenths of a foot
SwathWidth(boom_length) == 3 * boom_length

\* _swath_width * (0.4125 * boom_length / 3) * 2 / 3, truncated
BoomArea(swath10, boom_length) ==
    (swath10 * 4125 * boom_length * 2) \div (10 * 10000 * 3 * 3)

\* boom_draft / 36 * _area, truncated
BoomCapacity(boom_draft, area) == (boom_draft * area) \div 36

\* (offset * 0.00987 / speed) * 60, truncated
OffsetTime(offset, speed) == (offset * 987 * 60) \div (100000 * speed)

\* the ledger entries prepare_for_model_run registers (self.on is true)
BurnLedgerReset(mb) == [mb EXCEPT !.burned = 0, !.id = 0, !.boomed = 0]

Burn_prepare_for_model_run(b) ==
    LET sw == SwathWidth(b.boom_length)
        ar == BoomArea(sw, b.boom_length)
        cap == BoomCapacity(b.boom_draft, ar)
        r1 == IF sw > 10000 THEN <<"swath">> ELSE <<>>
        r2 == IF 10 * b.speed > 12 THEN <<"speed">> ELSE <<>>
    IN  [b EXCEPT !.report = r1 \o r2,
                  !.swath_width = sw,
                  !.area = ar,
                  !.boom_capacity = cap,
                  !.boom_capacity_remaining = cap,
                  !.offset_time = OffsetTime(b.offset, b.speed),
                  !.area_coverage_rate = (sw * b.speed) \div 4300,
                  !.is_collecting = TRUE]

(***************************************************************************)
(* Response._is_active                                                     *)
(***************************************************************************)
\* _is_active with half the time step taken as a floor division
_is_active_floor_half(timeseries, mt, ts) ==
    \E i \in 1..Len(timeseries) :
        /\ mt >= timeseries[i][1]
        /\ mt + (ts \div 2) <= timeseries[i][2]

_is_active(timeseries, mt, ts) ==
    \E i \in 1..Len(timeseries) :
        /\ mt >= timeseries[i][1]
        /\ 2 * mt + ts <= 2 * timeseries[i][2]

(***************************************************************************)
(* Burn: the phase handlers.  Each takes the operation b (and what it      *)
(* reads of the spill container) and yields the operation after the call   *)
(* and the exception raised, if any.                                       *)
(***************************************************************************)
CleaningTime == 3600

Ok(b) == [op |-> b, fault |-> "none"]
Raise(b, e) == [op |-> b, fault |-> e]

\* self.collected, read by _collect: the amount collected in this call
collected(b) == b.ts_collected

\* 0.14 * (100 - frac_water * 100) / 100, in units of 1e-4
BurnRate(fw) == 14 * (100 - fw)

\* (0.33 * boom_draft / burn_rate) * 60, truncated
BurnTime(boom_draft, burn_rate) == (33 * boom_draft * 60 * 100) \div burn_rate

\* 63.13 * _swath_width * oil_thickness * speed, in units of 1e-5
EncounterRate(swath10, thick8, speed) ==
    (((6313 * swath10) \div 100) * thick8 * speed) \div 10000

\* encounter_rate * throughput, in units of 1e-5
EmulsionRR(encounter_rate, throughput) == (encounter_rate * throughput) \div 100

\* ((_boom_capacity_remaining * 0.17811) * 42) / emulsion_rr for
\* emulsion_rr > 0, rounded up to a whole second
TimeToFill(cap_rem, emulsion_rr) == CeilDiv(cap_rem * 17811 * 42, emulsion_rr)

\* emulsion_rr * (_time_remaining / 60), truncated
PartialCollected(emulsion_rr, time_remaining) ==
    (emulsion_rr * time_remaining) \div (60 * 100000)

\* the first three lines of _collect
CollectBurnTime(b, s) ==
    IF b.burn_time = None
    THEN LET r == BurnRate(s.frac_water)
             t == BurnTime(b.boom_draft, r)
         IN  [b EXCEPT !.burn_rate = r,
                       !.burn_time = Some(t),
                       !.burn_time_remaining = t]
    ELSE b

\* CollectPartial without "self._boom_capacity_remaining -= self.collected"
CollectPartial_keeps_capacity(b, emulsion_rr) ==
    LET b1 == [b EXCEPT !.ts_collected =
                            PartialCollected(emulsion_rr, b.time_remaining)]
        b3 == [b1 EXCEPT !.time_remaining = 0]
    IN  [b3 EXCEPT !.time_collecting_in_sim = @ + b3.time_remaining]

\* the branch "doesn't finish fill the boom in this time step"
CollectPartial(b, emulsion_rr) ==
    LET b1 == [b EXCEPT !.ts_collected =
                            PartialCollected(emulsion_rr, b.time_remaining)]
        b2 == [b1 EXCEPT !.boom_capacity_remaining = @ - collected(b1)]
        b3 == [b2 EXCEPT !.time_remaining = 0]
    IN  [b3 EXCEPT !.time_collecting_in_sim = @ + b3.time_remaining]

\* CollectFull without "self._is_collecting = False"
CollectFull_keeps_collecting(b, time_to_fill) ==
    [b EXCEPT !.ts_collected = b.boom_capacity_remaining,
              !.boom_capacity_remaining = 0,
              !.is_boom_full = Some(TRUE),
              !.time_remaining = @ - time_to_fill,
              !.time_collecting_in_sim = @ + time_to_fill,
              !.offset_time_remaining = b.offset_time,
              !.is_transiting = TRUE]

\* the branch "finishes filling the boom in this time step"
CollectFull(b, time_to_fill) ==
    [b EXCEPT !.ts_collected = b.boom_capacity_remaining,
              !.boom_capacity_remaining = 0,
              !.is_boom_full = Some(TRUE),
              !.time_remaining = @ - time_to_fill,
              !.time_collecting_in_sim = @ + time_to_fill,
              !.offset_time_remaining = b.offset_time,
              !.is_collecting = FALSE,
              !.is_transiting = TRUE]

\* ieee: the operands of the division by emulsion_rr are numpy floats
\* (x / 0 is inf or nan) rather than Python floats (ZeroDivisionError)
Burn_collect(b0, s, ieee) ==
    LET b == CollectBurnTime(b0, s)
        oil_thickness == _get_thickness(s)
        encounter_rate == EncounterRate(b.swath_width, oil_thickness, b.speed)
        emulsion_rr == EmulsionRR(encounter_rate, b.throughput)
    IN  IF oil_thickness > 0
        THEN IF emulsion_rr = 0
             THEN IF ~ieee THEN Raise(b, "ZeroDivisionError")
                  ELSE IF b.boom_capacity_remaining > 0
                  THEN \* time_to_fill is inf
                       Ok(CollectPartial(b, emulsion_rr))
                  ELSE \* time_to_fill is nan: neither comparison with it
                       \* holds but _time_remaining > 0 does, and
                       \* _time_remaining -= nan
                       IF b.time_remaining > 0 THEN Raise(b, "NaN") ELSE Ok(b)
             ELSE LET time_to_fill ==
                          TimeToFill(b.boom_capacity_remaining, emulsion_rr)
                  IN  IF time_to_fill > b.time_remaining
                      THEN Ok(CollectPartial(b, emulsion_rr))
                      ELSE IF b.time_remaining > 0
                      THEN Ok(CollectFull(b, time_to_fill))
                      ELSE Ok(b)
        ELSE \* time_to_fill = 0.
             IF 0 > b.time_remaining THEN Ok(CollectPartial(b, emulsion_rr))
             ELSE IF b.time_remaining > 0 THEN Ok(CollectFull(b, 0))
             ELSE Ok(b)

\* Burn_transit resuming collection on every arrival
Burn_transit_to_collecting(b) ==
    IF b.time_remaining > b.offset_time_remaining
    THEN LET b1 == [b EXCEPT !.time_remaining = @ - b.offset_time_remaining,
                             !.offset_time_remaining = 0,
                             !.is_transiting = FALSE]
         IN  IF b1.is_boom_full = None THEN Raise(b1, "AttributeError")
             ELSE Ok([b1 EXCEPT !.is_collecting = TRUE])
    ELSE IF b.time_remaining > 0
    THEN Ok([b EXCEPT !.offset_time_remaining = @ - b.time_remaining,
                      !.time_remaining = 0])
    ELSE Ok(b)

\* Burn_transit subtracting the whole _offset_time on arrival
Burn_transit_whole_offset(b) ==
    IF b.time_remaining > b.offset_time_remaining
    THEN LET b1 == [b EXCEPT !.time_remaining = @ - b.offset_time,
                             !.offset_time_remaining = 0,
                             !.is_transiting = FALSE]
         IN  IF b1.is_boom_full = None THEN Raise(b1, "AttributeError")
             ELSE IF b1.is_boom_full[1]
             THEN Ok([b1 EXCEPT !.is_burning = TRUE])
             ELSE Ok([b1 EXCEPT !.is_collecting = TRUE])
    ELSE IF b.time_remaining > 0
    THEN Ok([b EXCEPT !.offset_time_remaining = @ - b.time_remaining,
                      !.time_remaining = 0])
    ELSE Ok(b)

Burn_transit(b) ==
    IF b.time_remaining > b.offset_time_remaining
    THEN LET b1 == [b EXCEPT !.time_remaining = @ - b.offset_time_remaining,
                             !.offset_time_remaining = 0,
                             !.is_transiting = FALSE]
         IN  IF b1.is_boom_full = None THEN Raise(b1, "AttributeError")
             ELSE IF b1.is_boom_full[1]
             THEN Ok([b1 EXCEPT !.is_burning = TRUE])
             ELSE Ok([b1 EXCEPT !.is_collecting = TRUE])
    ELSE IF b.time_remaining > 0
    THEN Ok([b EXCEPT !.offset_time_remaining = @ - b.time_remaining,
                      !.time_remaining = 0])
    ELSE Ok(b)

\* Burn_burn without "self._boom_capacity_remaining += burned"
Burn_burn_keeps_capacity(b0) ==
    LET b == [b0 EXCEPT !.is_boom_full = Some(FALSE)]
    IN  IF b.time_remaining > b.burn_time_remaining
        THEN Ok([b EXCEPT !.time_remaining = @ - b.burn_time_remaining,
                          !.burn_time_remaining = 0,
                          !.ts_burned = b.boom_capacity - b.boom_capacity_remaining,
                          !.is_burning = FALSE,
                          !.is_cleaning = TRUE,
                          !.cleaning_time_remaining = CleaningTime])
        ELSE IF b.time_remaining > 0
        THEN IF b.burn_time = None THEN Raise(b, "TypeError")
             ELSE LET burned == (b.boom_capacity * b.time_remaining)
                                   \div b.burn_time[1]
                  IN  Ok([b EXCEPT !.ts_burned = burned,
                                   !.burn_time_remaining = @ - b.time_remaining,
                                   !.time_remaining = 0])
        ELSE Ok(b)

\* Burn_burn taking the burned fraction of a partial burn relative to the
\* burn time still remaining
Burn_burn_by_remaining(b0) ==
    LET b == [b0 EXCEPT !.is_boom_full = Some(FALSE)]
    IN  IF b.time_remaining > b.burn_time_remaining
        THEN Ok([b EXCEPT !.time_remaining = @ - b.burn_time_remaining,
                          !.burn_time_remaining = 0,
                          !.ts_burned = b.boom_capacity - b.boom_capacity_remaining,
                          !.is_burning = FALSE,
                          !.is_cleaning = TRUE,
                          !.cleaning_time_remaining = CleaningTime])
        ELSE IF b.time_remaining > 0
        THEN LET burned == (b.boom_capacity * b.time_remaining)
                              \div b.burn_time_remaining
             IN  Ok([b EXCEPT !.boom_capacity_remaining = @ + burned,
                              !.ts_burned = burned,
                              !.burn_time_remaining = @ - b.time_remaining,
                              !.time_remaining = 0])
        ELSE Ok(b)

Burn_burn(b0) ==
    LET b == [b0 EXCEPT !.is_boom_full = Some(FALSE)]
    IN  IF b.time_remaining > b.burn_time_remaining
        THEN Ok([b EXCEPT !.time_remaining = @ - b.burn_time_remaining,
                          !.burn_time_remaining = 0,
                          !.ts_burned = b.boom_capacity - b.boom_capacity_remaining,
                          !.is_burning = FALSE,
                          !.is_cleaning = TRUE,
                          !.cleaning_time_remaining = CleaningTime])
        ELSE IF b.time_remaining > 0
        THEN IF b.burn_time = None THEN Raise(b, "TypeError")
             ELSE LET burned == (b.boom_capacity * b.time_remaining)
                                   \div b.burn_time[1]
                  IN  Ok([b EXCEPT !.boom_capacity_remaining = @ + burned,
                                   !.ts_burned = burned,
                                   !.burn_time_remaining = @ - b.time_remaining,
                                   !.time_remaining = 0])
        ELSE Ok(b)

\* Burn_clean resuming collection without the return transit
Burn_clean_to_collecting(b0) ==
    LET b == [b0 EXCEPT !.burn_time = None]
    IN  IF b.time_remaining > b.cleaning_time_remaining
        THEN Ok([b EXCEPT !.time_remaining = @ - b.cleaning_time_remaining,
                          !.cleaning_time_remaining = 0,
                          !.is_cleaning = FALSE,
                          !.is_collecting = TRUE,
                          !.offset_time_remaining = b.offset_time])
        ELSE IF b.time_remaining > 0
        THEN Ok([b EXCEPT !.cleaning_time_remaining = @ - b.time_remaining,
                          !.time_remaining = 0])
        ELSE Ok(b)

\* Burn_clean without the branch that ends the cleaning
Burn_clean_never_done(b0) ==
    LET b == [b0 EXCEPT !.burn_time = None]
    IN  IF b.time_remaining > b.cleaning_time_remaining
        THEN Ok(b)
        ELSE IF b.time_remaining > 0
        THEN Ok([b EXCEPT !.cleaning_time_remaining = @ - b.time_remaining,
                          !.time_remaining = 0])
        ELSE Ok(b)

Burn_clean(b0) ==
    LET b == [b0 EXCEPT !.burn_time = None]
    IN  IF b.time_remaining > b.cleaning_time_remaining
        THEN Ok([b EXCEPT !.time_remaining = @ - b.cleaning_time_remaining,
                          !.cleaning_time_remaining = 0,
                          !.is_cleaning = FALSE,
                          !.is_transiting = TRUE,
                          !.offset_time_remaining = b.offset_time])
        ELSE IF b.time_remaining > 0
        THEN Ok([b EXCEPT !.cleaning_time_remaining = @ - b.time_remaining,
                          !.time_remaining = 0])
        ELSE Ok(b)

(***************************************************************************)
(* The host's run loop around one Burn operation.                          *)
(*   pc = "new"      constructed, prepare_for_model_run not yet called     *)
(*   pc = "idle"     at a step boundary                                    *)
(*   pc = "s1".."s5" inside the while loop of prepare_for_model_step,      *)
(*                   before the 1st .. 5th "if" of the loop body           *)
(*   pc = "stepped"  prepare_for_model_step has returned                   *)
(*   pc in Faults    an exception left the operation (or a nan entered its *)
(*                   state); the host's run ends                           *)
(***************************************************************************)
Faults == {"ZeroDivisionError", "AttributeError", "TypeError", "NameError",
           "NaN"}

\* spill containers explored: one batch; two batches; an empty batch and one
\* with elements.  Every container holds at least one element.
BatchSets ==
    { << Data(<< <<200, 110>> >>) >>,
      << Data(<< <<200, 110>> >>), Data(<< <<40, 22>> >>) >>,
      << Data(<< >>), Data(<< <<200, 110>> >>) >> }

FracWaters == {0}

\* the phases whose flag is set
Phases(b) ==
    (IF b.is_collecting THEN {"collecting"} ELSE {}) \cup
    (IF b.is_transiting THEN {"transiting"} ELSE {}) \cup
    (IF b.is_burning THEN {"burning"} ELSE {}) \cup
    (IF b.is_cleaning THEN {"cleaning"} ELSE {})

\* the current phase when exactly one flag is set
Phase(b) ==
    IF Cardinality(Phases(b)) = 1 THEN CHOOSE p \in Phases(b) : TRUE
    ELSE IF Phases(b) = {} THEN "none" ELSE "several"

\* Observations, not program state:
\*   consumed      time subtracted from _time_remaining in the current step
\*   visited       the handlers called in the current step, in order
\*   iterations    the passes through the body of the while loop completed
\*   collected     what the calls of _collect in this step took from
\*                 _boom_capacity_remaining, in all
\*                 in the current step
\*   mass_balance  the ledger when the current step began
\*   batches       the substance batches when the current step began
\*   prev, prev2   the phase before the current one, and the one before it
\*   oil           every active step of the run so far had a positive
\*                 oil thickness
NoHist == [consumed |-> 0,
           visited |-> << >>,
           iterations |-> 0,
           collected |-> 0,
           mass_balance |-> [burned |-> 0, boomed |-> 0, id |-> 0],
           batches |-> << >>,
           prev |-> "none",
           prev2 |-> "none",
           oil |-> TRUE]

\* no Skim operation, and no call of _remove_mass_simple on its own
NoSkim == [storage |-> 0]
NoCall == [called |-> FALSE]
\* no Disperse operation
NoDisperse == [cascade_on |-> FALSE]

Init ==
    /\ pc = "new"
    /\ \E g \in BurnGeometries, th \in Throughputs, tsr \in TimeSeriesSet :
          burn = Burn__init__(g, th, tsr)
    /\ \E bs \in BatchSets, fw \in FracWaters :
          sc = [batches |-> bs, film |-> 0, frac_water |-> fw,
                mass_balance |-> [burned |-> 0, boomed |-> 0, id |-> 0]]
    /\ time_step = 0
    /\ model_time = 0
    /\ steps = 0
    /\ runs = 0
    /\ hist = NoHist
    /\ skim = NoSkim
    /\ rm = NoCall
    /\ disperse = NoDisperse
    /\ gate = NoCall
    /\ ctor = NoCall
    /\ shared = NoCall

PrepareForModelRun ==
    /\ pc \in {"new", "idle"}
    /\ runs < MaxRuns
    /\ burn' = Burn_prepare_for_model_run(burn)
    /\ sc' = [sc EXCEPT !.mass_balance = BurnLedgerReset(@)]
    /\ runs' = runs + 1
    /\ pc' = "idle"
    /\ model_time' = 0
    /\ hist' = NoHist
    /\ UNCHANGED <<time_step, steps, skim, rm, disperse, gate, ctor, shared>>

\* Burn_begin_step without the reset of the per-step amounts
Burn_begin_step_keeps_amounts(b, active, ts) ==
    LET b1 == [b EXCEPT !.active = active]
    IN  IF active THEN [b1 EXCEPT !.time_remaining = ts] ELSE b1

\* prepare_for_model_step up to the while loop, the result of _is_active
\* given
Burn_begin_step(b, active, ts) ==
    LET b1 == [b EXCEPT !.ts_collected = 0, !.ts_burned = 0,
                        !.active = active]
    IN  IF active THEN [b1 EXCEPT !.time_remaining = ts] ELSE b1

\* prepare_for_model_step up to the while loop; the oil film is the
\* container's at the time of the call
BeginStep ==
    /\ pc = "idle"
    /\ runs >= 1
    /\ steps < MaxSteps
    /\ \E ts \in TimeSteps, film \in Films :
         LET act == _is_active(burn.timeseries, model_time, ts)
         IN  /\ time_step' = ts
             /\ sc' = [sc EXCEPT !.film = film]
             /\ burn' = Burn_begin_step(burn, act, ts)
             /\ pc' = IF act /\ ts > 0 THEN "s1" ELSE "stepped"
             /\ hist' = [hist EXCEPT
                            !.consumed = 0,
                            !.visited = << >>,
                            !.iterations = 0,
                            !.collected = 0,
                            !.mass_balance = sc.mass_balance,
                            !.batches = sc.batches,
                            !.oil = @ /\ (act => _get_thickness(sc') > 0)]
    /\ UNCHANGED <<model_time, steps, runs, skim, rm, disperse, gate, ctor, shared>>

\* the operation and position after the handler h was called (h = "" when
\* the "if" was false and no handler was called)
After(h, r, next) ==
    /\ burn' = r.op
    /\ pc' = IF r.fault # "none" THEN r.fault ELSE next
    /\ hist' = [hist EXCEPT
                   !.consumed = @ + (burn.time_remaining - r.op.time_remaining),
                   !.visited = IF h = "" THEN @ ELSE Append(@, h),
                   !.iterations = IF pc = "s5" THEN @ + 1 ELSE @,
                   !.collected = IF h = "collect"
                                 THEN @ + (burn.boom_capacity_remaining
                                           - r.op.boom_capacity_remaining)
                                 ELSE @,
                   !.prev = IF Phase(r.op) # Phase(burn) THEN Phase(burn) ELSE @,
                   !.prev2 = IF Phase(r.op) # Phase(burn) THEN hist.prev ELSE @]
    /\ UNCHANGED <<sc, time_step, model_time, steps, runs, skim, rm, disperse, gate, ctor, shared>>

\* if self._is_collecting: self._collect(...)
StepCollect ==
    /\ pc = "s1"
    /\ IF burn.is_collecting
       THEN \E ieee \in BOOLEAN : After("collect", Burn_collect(burn, sc, ieee), "s2")
       ELSE After("", Ok(burn), "s2")

\* if self._is_transiting and self._is_boom_full: self._transit(...)
StepTransitToBurn ==
    /\ pc = "s2"
    /\ IF burn.is_transiting
       THEN IF burn.is_boom_full = None
            THEN After("", Raise(burn, "AttributeError"), "s3")
            ELSE IF burn.is_boom_full[1]
            THEN After("transit", Burn_transit(burn), "s3")
            ELSE After("", Ok(burn), "s3")
       ELSE After("", Ok(burn), "s3")

\* if self._is_burning: self._burn(...)
StepBurn ==
    /\ pc = "s3"
    /\ IF burn.is_burning
       THEN After("burn", Burn_burn(burn), "s4")
       ELSE After("", Ok(burn), "s4")

\* if self._is_cleaning: self._clean(...)
StepClean ==
    /\ pc = "s4"
    /\ IF burn.is_cleaning
       THEN After("clean", Burn_clean(burn), "s5")
       ELSE After("", Ok(burn), "s5")

\* if self._is_transiting and not self._is_boom_full: self._transit(...)
\* followed by the test of the while loop
StepTransitBack ==
    /\ pc = "s5"
    /\ LET call == burn.is_transiting /\ burn.is_boom_full # None
                    /\ ~burn.is_boom_full[1]
           r == IF burn.is_transiting /\ burn.is_boom_full = None
                THEN Raise(burn, "AttributeError")
                ELSE IF call THEN Burn_transit(burn) ELSE Ok(burn)
       IN  After(IF call THEN "transit" ELSE "", r,
                 IF r.op.time_remaining > 0 THEN "s1" ELSE "stepped")

\* Burn.weather_elements, then the host advances the model time
WeatherElements ==
    /\ pc = "stepped"
    /\ IF ~burn.active \/ NumLE(sc) = 0
       THEN sc' = sc
       ELSE LET w == BurnWeatherBatches(sc.batches, sc.mass_balance,
                                        burn.ts_collected, burn.ts_burned)
            IN  sc' = [sc EXCEPT !.batches = w.batches,
                                 !.mass_balance = w.mass_balance]
    /\ model_time' = model_time + time_step
    /\ steps' = steps + 1
    /\ pc' = "idle"
    /\ UNCHANGED <<burn, time_step, runs, hist, skim, rm, disperse, gate, ctor, shared>>

Next ==
    \/ PrepareForModelRun
    \/ BeginStep
    \/ StepCollect
    \/ StepTransitToBurn
    \/ StepBurn
    \/ StepClean
    \/ StepTransitBack
    \/ WeatherElements

Spec == Init /\ [][Next]_vars

(***************************************************************************)
(* Properties of the Burn operation                                        *)
(***************************************************************************)
InLoop == pc \in {"s1", "s2", "s3", "s4", "s5"}

\* C1: in every active step the time the visited handlers subtract from the
\* budget adds up to time_step: the remaining budget is never negative
\* inside the step and is 0, with time_step consumed, when
\* prepare_for_model_step has returned.
C1_TimeBudgetConsumed ==
    (burn.active /\ (InLoop \/ pc = "stepped")) =>
        /\ burn.time_remaining >= 0
        /\ hist.consumed + burn.time_remaining = time_step
        /\ (pc = "stepped" =>
               burn.time_remaining = 0 /\ hist.consumed = time_step)

\* an active step has returned after four handlers consumed its budget
C1_Witness ==
    /\ pc = "stepped"
    /\ burn.active
    /\ hist.visited = <<"collect", "transit", "burn", "clean">>
    /\ hist.consumed = time_step

\* C2: at every step boundary after prepare_for_model_run the remaining boom
\* capacity lies between 0 and the boom capacity.
C2_BoomCapacityInRange ==
    (pc = "idle" /\ runs >= 1) =>
        /\ 0 <= burn.boom_capacity_remaining
        /\ burn.boom_capacity_remaining <= burn.boom_capacity

\* a step boundary in the middle of a burn that has freed part of the boom,
\* and one in the middle of collecting with the boom partly filled
C2_Witness ==
    /\ pc = "idle"
    /\ steps >= 2
    /\ burn.is_burning
    /\ 0 < burn.boom_capacity_remaining
    /\ burn.boom_capacity_remaining < burn.boom_capacity
    /\ burn.burn_time_remaining < burn.burn_time[1]

\* the phase successions of the cycle, as (phase before the previous one,
\* previous phase, current phase)
PhaseCycle ==
    { <<"none", "none", "collecting">>,
      <<"none", "collecting", "transiting">>,
      <<"collecting", "transiting", "burning">>,
      <<"transiting", "burning", "cleaning">>,
      <<"burning", "cleaning", "transiting">>,
      <<"cleaning", "transiting", "collecting">>,
      <<"transiting", "collecting", "transiting">> }

\* C4: in the run that follows the first prepare_for_model_run the phases
\* succeed one another in the order collecting, transiting, burning,
\* cleaning, transiting, collecting: the transit entered from collecting
\* ends in burning and the transit entered from cleaning ends in collecting.
C4_PhaseOrder ==
    (runs = 1) => <<hist.prev2, hist.prev, Phase(burn)>> \in PhaseCycle

\* a whole cycle has been completed: collecting again after the return
\* transit that followed cleaning
C4_Witness ==
    /\ runs = 1
    /\ pc = "idle"
    /\ <<hist.prev2, hist.prev, Phase(burn)>> =
           <<"cleaning", "transiting", "collecting">>

\* C5: in the run that follows the first prepare_for_model_run exactly one
\* of the four phase flags is set, at step boundaries and between the
\* handler calls of a step.
C5_OnePhaseFlag ==
    (runs = 1) => Cardinality(Phases(burn)) = 1

\* between two handler calls of a step that has already changed phase twice
C5_Witness ==
    /\ runs = 1
    /\ pc = "s4"
    /\ hist.visited = <<"collect", "transit", "burn">>
    /\ Phases(burn) = {"cleaning"}

\* a step of the current run has been completed (weather_elements included)
StepDone == pc = "idle" /\ hist.batches # << >>

\* number of batches that hold elements
RECURSIVE NonEmptyBatches(_)
NonEmptyBatches(batches) ==
    IF batches = << >> THEN 0
    ELSE (IF Len(Head(batches).mass) > 0 THEN 1 ELSE 0)
         + NonEmptyBatches(Tail(batches))

\* C6: after an active step over a container with a non-empty batch the
\* ledger entry 'boomed' has changed by the step's collected amount minus
\* its burned amount and 'burned' has risen by the burned amount, whatever
\* the number of batches.
C6_LedgerChange ==
    (StepDone /\ burn.active /\ NonEmptyBatches(hist.batches) >= 1) =>
        /\ sc.mass_balance.boomed - hist.mass_balance.boomed
              = burn.ts_collected - burn.ts_burned
        /\ sc.mass_balance.burned - hist.mass_balance.burned = burn.ts_burned

C10_Scenario ==
    /\ StepDone
    /\ runs = 1
    /\ steps = 1
    /\ burn.active
    /\ time_step = 3600
    /\ burn.boom_capacity = 100
    /\ Head(hist.visited) = "collect"
    /\ burn.time_collecting_in_sim = 1800

OrderedTimeseries(timeseries) ==
    \A i \in 1..Len(timeseries), j \in 1..Len(timeseries) :
        i < j => /\ timeseries[i][1] < timeseries[j][1]
                 /\ timeseries[i][2] <= timeseries[j][1]

\* C12: an operation that has been constructed, and all the more one whose
\* prepare_for_model_step is called, has a timeseries with strictly
\* ascending start times and without overlapping intervals (any other
\* timeseries was refused by the constructor).
C12_TimeseriesValidated ==
    OrderedTimeseries(burn.timeseries)

\* the phase flags, the remaining boom capacity and the sub-budgets of the
\* phases
PhaseState(b) ==
    <<b.is_collecting, b.is_transiting, b.is_burning, b.is_cleaning,
      b.is_boom_full, b.boom_capacity_remaining, b.burn_time,
      b.burn_time_remaining, b.offset_time_remaining,
      b.cleaning_time_remaining, b.time_remaining>>

\* prepare_for_model_step returns with the operation inactive
InactiveStepBegins == pc = "idle" /\ pc' = "stepped" /\ ~burn'.active

\* weather_elements is called after an inactive step
InactiveStepEnds == pc = "stepped" /\ pc' = "idle" /\ ~burn.active

\* C13: an inactive prepare_for_model_step leaves the phase flags, the
\* remaining boom capacity and the sub-budgets of the phases unchanged and
\* sets the per-step collected and burned amounts to 0; the
\* weather_elements that follows leaves the ledger and every substance
\* batch unchanged.
C13_InactiveStepFrame ==
    [][ /\ InactiveStepBegins =>
              /\ PhaseState(burn') = PhaseState(burn)
              /\ burn'.ts_collected = 0
              /\ burn'.ts_burned = 0
              /\ sc'.batches = sc.batches
              /\ sc'.mass_balance = sc.mass_balance
        /\ InactiveStepEnds =>
              /\ burn' = burn
              /\ sc'.batches = sc.batches
              /\ sc'.mass_balance = sc.mass_balance ]_vars

\* an inactive step has been completed in the middle of a burn, after a
\* step that collected and burned
C13_Witness ==
    /\ pc = "idle"
    /\ steps >= 2
    /\ ~burn.active
    /\ burn.is_burning
    /\ burn.ts_collected = 0
    /\ burn.ts_burned = 0
    /\ sc.mass_balance.burned > 0
    /\ sc.batches = hist.batches
    /\ sc.mass_balance = hist.mass_balance

\* C15: every prepare_for_model_run, whatever the steps before it, leaves
\* collecting as the only current phase, the remaining boom capacity equal
\* to the boom capacity, the burn time of the cycle cleared and the ledger
\* entries 'burned' and 'boomed' at 0, as the first one does on a new
\* operation.
C15_FullReset ==
    [][ runs' = runs + 1 =>
          /\ Phases(burn') = {"collecting"}
          /\ burn'.boom_capacity_remaining = burn'.boom_capacity
          /\ burn'.burn_time = None
          /\ sc'.mass_balance.burned = 0
          /\ sc'.mass_balance.boomed = 0 ]_vars

\* the passes through the loop body that a step of ts seconds can take:
\* every pass but the first and the last contains a whole cleaning
MaxIterations(ts) == ts \div CleaningTime + 2

\* C20: the while loop of an active step ends after finitely many handler
\* calls, from every phase state and for every time step and oil
\* thickness: the passes through the loop body number at most
\* time_step / 3600 + 2 and the handler calls at most five per pass.
C20_LoopTerminates ==
    (InLoop \/ pc = "stepped" \/ pc \in Faults) =>
        /\ hist.iterations <= MaxIterations(time_step)
        /\ (InLoop => hist.iterations < MaxIterations(time_step))
        /\ Len(hist.visited) <= 5 * MaxIterations(time_step)

\* a step without oil has returned after two passes and seven handler
\* calls, two of them collections that took no time
C20_Witness ==
    /\ pc = "stepped"
    /\ sc.film = 0
    /\ hist.iterations = 2
    /\ Len(hist.visited) >= 7
    /\ burn.time_collecting_in_sim = 0
    /\ burn.time_remaining = 0

\* _collect is called: the first "if" of the loop body, with the
\* operation collecting
CollectCalled == pc = "s1" /\ burn.is_collecting

\* C26: a call of _collect with an oil thickness <= 0 collects nothing,
\* leaves the remaining boom capacity unchanged, does not mark the boom
\* full and leaves the operation collecting.
C26_NoOilNoOp ==
    [][ (CollectCalled /\ _get_thickness(sc) <= 0) =>
          /\ burn'.ts_collected = burn.ts_collected
          /\ burn'.boom_capacity_remaining = burn.boom_capacity_remaining
          /\ burn'.is_boom_full # Some(TRUE)
          /\ burn'.is_collecting ]_vars

\* the time to fill the boom that _collect computes from the state in
\* which it is called, for a positive recovery rate or no oil
TimeToFillNow ==
    LET b == CollectBurnTime(burn, sc)
        oil_thickness == _get_thickness(sc)
        emulsion_rr ==
            EmulsionRR(EncounterRate(b.swath_width, oil_thickness, b.speed),
                       b.throughput)
    IN  IF oil_thickness > 0
        THEN TimeToFill(b.boom_capacity_remaining, emulsion_rr)
        ELSE 0

\* the amount a partial collection takes in the state in which _collect is
\* called
PartialAmountNow ==
    LET b == CollectBurnTime(burn, sc)
        emulsion_rr ==
            EmulsionRR(EncounterRate(b.swath_width, _get_thickness(sc), b.speed),
                       b.throughput)
    IN  PartialCollected(emulsion_rr, burn.time_remaining)

\* _collect is called with a positive recovery rate, or without oil
CollectRateKnown ==
    /\ CollectCalled
    /\ _get_thickness(sc) > 0 =>
          EmulsionRR(EncounterRate(burn.swath_width, _get_thickness(sc),
                                   burn.speed), burn.throughput) > 0

BurnCalled == pc = "s3" /\ burn.is_burning /\ burn.burn_time # None

\* frac_burned = _time_remaining / _burn_time; burned = _boom_capacity *
\* frac_burned, for the call about to be made
PartialBurnedNow == (burn.boom_capacity * burn.time_remaining) \div burn.burn_time[1]

\* C28: a call of _burn that does not complete the burn lowers
\* _boom_capacity_remaining by the burned amount, which is proportional to
\* the time burned, and records that amount in _ts_burned; a call that
\* completes the burn sets _boom_capacity_remaining to 0, records the burned
\* amount and moves the operation from burning to cleaning.
C28_BurnBranches ==
    [][ BurnCalled =>
          IF burn.time_remaining > burn.burn_time_remaining
          THEN /\ burn'.boom_capacity_remaining = 0
               /\ burn'.ts_burned =
                     burn.boom_capacity - burn.boom_capacity_remaining
               /\ ~burn'.is_burning
               /\ burn'.is_cleaning
          ELSE /\ burn'.boom_capacity_remaining =
                     burn.boom_capacity_remaining - PartialBurnedNow
               /\ burn'.ts_burned = PartialBurnedNow ]_vars

\* the part of C28 that the code has: the amounts recorded and the change of
\* phase
BurnRecords ==
    [][ BurnCalled =>
          IF burn.time_remaining > burn.burn_time_remaining
          THEN /\ burn'.ts_burned =
                     burn.boom_capacity - burn.boom_capacity_remaining
               /\ ~burn'.is_burning
               /\ burn'.is_cleaning
          ELSE /\ burn'.ts_burned = PartialBurnedNow
               /\ burn'.boom_capacity_remaining =
                     burn.boom_capacity_remaining + PartialBurnedNow ]_vars

\* _burn ends the burn and starts the cleaning
CleaningBegins == pc = "s3" /\ ~burn.is_cleaning /\ burn'.is_cleaning

CleanCalled == pc = "s4" /\ burn.is_cleaning

\* the second _transit of the loop body ends the return leg
ReturnEnds ==
    /\ pc = "s5"
    /\ burn.is_transiting /\ burn.is_boom_full = Some(FALSE)
    /\ ~burn'.is_transiting /\ burn'.is_collecting

\* a cleaning starts with 3600 s to go, every call of _clean takes from the
\* step budget what it takes from the cleaning time, and the cleaning is left
\* only with no cleaning time to go, for transiting
CleaningTakesAnHour ==
    [][ runs = 1 =>
          /\ CleaningBegins => burn'.cleaning_time_remaining = CleaningTime
          /\ CleanCalled =>
               /\ burn.time_remaining - burn'.time_remaining =
                     burn.cleaning_time_remaining - burn'.cleaning_time_remaining
               /\ burn'.cleaning_time_remaining >= 0
               /\ ~burn'.is_cleaning =>
                     burn'.cleaning_time_remaining = 0 /\ burn'.is_transiting ]_vars

\* C29: a cleaning takes 3600 s of step budget in all, over one or more
\* steps, and is followed by transiting; when the return transit of that
\* cycle ends the operation is collecting with the per-cycle state reset:
\* no burn time, and the whole boom capacity remaining to be filled.
C29_CleanThenReset ==
    [][ runs = 1 =>
          /\ CleaningBegins => burn'.cleaning_time_remaining = CleaningTime
          /\ CleanCalled =>
               /\ burn.time_remaining - burn'.time_remaining =
                     burn.cleaning_time_remaining - burn'.cleaning_time_remaining
               /\ burn'.cleaning_time_remaining >= 0
               /\ ~burn'.is_cleaning =>
                     burn'.cleaning_time_remaining = 0 /\ burn'.is_transiting
          /\ ReturnEnds =>
               /\ burn'.burn_time = None
               /\ burn'.boom_capacity_remaining = burn'.boom_capacity ]_vars

\* one of the two calls of _transit in the loop body is about to be made
TransitCalled ==
    /\ burn.is_transiting
    /\ \/ pc = "s2" /\ burn.is_boom_full = Some(TRUE)
       \/ pc = "s5" /\ burn.is_boom_full = Some(FALSE)

HandlerCalled == CollectCalled \/ TransitCalled \/ BurnCalled \/ CleanCalled

\* C31: every call of _collect, _transit, _burn or _clean that is made with
\* step budget left and that returns leaves less budget than it found.
C31_HandlerConsumes ==
    [][ (HandlerCalled /\ burn.time_remaining > 0 /\ pc' \notin Faults) =>
           burn'.time_remaining < burn.time_remaining ]_vars

\* the calls of C31 made on a container with an oil film, at a rate that is
\* not zero
C31_WithOil ==
    [][ (/\ HandlerCalled /\ burn.time_remaining > 0 /\ pc' \notin Faults
         /\ _get_thickness(sc) > 0 /\ burn.throughput > 0) =>
           burn'.time_remaining < burn.time_remaining ]_vars

\* C32: in a run the ledger entry 'boomed' is never negative: what the steps
\* so far recorded as burned does not exceed what they recorded as
\* collected.
C32_BoomedNotNegative ==
    runs >= 1 => sc.mass_balance.boomed >= 0

\* C32 for the first run of an operation on a container of one batch with
\* an oil film in every active step
C32_OneBatchWithOil ==
    (runs = 1 /\ hist.oil /\ Len(sc.batches) = 1) => sc.mass_balance.boomed >= 0

\* C33: at the end of an active step the collected amount of the step, which
\* weather_elements enters in the ledger, is the whole of what the step's
\* calls of _collect took from the remaining boom capacity, also when the
\* step called _collect more than once.
C33_CollectedIsSum ==
    (pc = "stepped" /\ burn.active) => burn.ts_collected = hist.collected

\* C33 for the steps that call _collect at most once
C33_OneVisit ==
    (/\ pc = "stepped" /\ burn.active
     /\ Cardinality({k \in 1..Len(hist.visited) : hist.visited[k] = "collect"}) <= 1)
    => burn.ts_collected = hist.collected

\* number of mass components of all elements of the batches
RECURSIVE NumComponents(_)
NumComponents(batches) ==
    IF batches = << >> THEN 0
    ELSE SumSeq([i \in 1..Len(Head(batches).mass_components) |->
                    Len(Head(batches).mass_components[i])])
         + NumComponents(Tail(batches))

\* the mass the batches lost in the step that has ended
StepMassRemoved == SumSeq(AllMass(hist.batches)) - SumSeq(AllMass(sc.batches))

\* what the step that has ended entered as collected: the rise of the
\* operation's own ledger entry, which is the part of the change of 'boomed'
\* that is due to collection
StepBoomedByCollection == sc.mass_balance.id - hist.mass_balance.id

\* C34: after every active step the mass the substance batches lost in the
\* step is the amount the step added to 'boomed' for collection (up to the
\* truncation of each mass component to a whole unit), whatever the number of
\* batches and also when the collected amount exceeds the mass available.
C34_MassConserved ==
    (StepDone /\ burn.active) =>
        /\ StepBoomedByCollection <= StepMassRemoved
        /\ StepMassRemoved <= StepBoomedByCollection + NumComponents(hist.batches)

\* C34 for the steps in which every batch holds at least the collected
\* amount, and exactly one batch holds elements
C34_OneBatchEnoughMass ==
    (/\ StepDone /\ burn.active
     /\ NonEmptyBatches(hist.batches) = 1
     /\ \A k \in 1..Len(hist.batches) :
           Len(hist.batches[k].mass) > 0 =>
              SumSeq(hist.batches[k].mass) >= burn.ts_collected) =>
        /\ StepBoomedByCollection <= StepMassRemoved
        /\ StepMassRemoved <= StepBoomedByCollection + NumComponents(hist.batches)

(***************************************************************************)
(* _remove_mass_simple on its own: one call on arguments drawn from small  *)
(* sets.                                                                   *)
(***************************************************************************)
RMRows == { <<0, 0>>, <<30, 20>>, <<20, 20>>, <<60, 40>> }
RMComponents == { <<r>> : r \in RMRows } \cup { <<r, q>> : r \in RMRows, q \in RMRows }
RMAmounts == {0, 10, 25, 50, 80, 100}

\* the burn-side variables while only _remove_mass_simple is exercised
BurnUnused ==
    /\ pc = "new"
    /\ burn = Burn__init__(CHOOSE g \in BurnGeometries : TRUE, 0, << >>)
    /\ sc = [batches |-> << >>, film |-> 0, frac_water |-> 0,
             mass_balance |-> [burned |-> 0, boomed |-> 0, id |-> 0]]
    /\ time_step = 0
    /\ model_time = 0
    /\ steps = 0
    /\ runs = 0
    /\ hist = NoHist

InitRM ==
    /\ BurnUnused
    /\ skim = NoSkim
    /\ disperse = NoDisperse
    /\ gate = NoCall
    /\ ctor = NoCall
    /\ shared = NoCall
    /\ \E mc \in RMComponents, a \in RMAmounts :
          rm = [called |-> FALSE, data |-> Data(mc), amount |-> a,
                out |-> Data(mc)]

RemoveMass ==
    /\ ~rm.called
    /\ rm' = [rm EXCEPT !.called = TRUE,
                        !.out = _remove_mass_simple(rm.data, rm.amount)]
    /\ UNCHANGED <<pc, burn, sc, time_step, model_time, steps, runs, hist, skim,
                 disperse, gate, ctor, shared>>

NextRM == RemoveMass

SpecRM == InitRM /\ [][NextRM]_vars

\* all entries of a two-dimensional array
Entries(mc) == { <<i, j>> : i \in 1..Len(mc), j \in 1..2 }

\* C7: for amount >= 0 and total_mass > 0 the call keeps of every mass
\* component the fraction 1 - min(amount / total_mass, 1) (truncated to a
\* whole unit), mass is the row sum of the components, no component is
\* negative, and the mass removed is at least min(amount, total_mass) and
\* at most total_mass; removing as much as or more than the total leaves 0.
C7_RemoveMassCapped ==
    LET total == SumSeq(rm.data.mass)
        kept == total - Min(rm.amount, total)
        inp == rm.data.mass_components
        out == rm.out.mass_components
        removed == total - SumSeq(rm.out.mass)
    IN  (rm.called /\ total > 0 /\ rm.amount >= 0) =>
          /\ \A e \in Entries(inp) :
                /\ out[e[1]][e[2]] >= 0
                /\ out[e[1]][e[2]] * total <= inp[e[1]][e[2]] * kept
                /\ inp[e[1]][e[2]] * kept < (out[e[1]][e[2]] + 1) * total
          /\ rm.out.mass = RowSums(out)
          /\ removed >= Min(rm.amount, total)
          /\ removed <= total
          /\ (rm.amount >= total => SumSeq(rm.out.mass) = 0)

\* total_mass = 50 and amount = 80 leave mass 0
C7_Witness ==
    /\ rm.called
    /\ SumSeq(rm.data.mass) = 50
    /\ rm.amount = 80
    /\ SumSeq(rm.out.mass) = 0
    /\ rm.out.mass_components = << <<0, 0>> >>

\* C8: on a batch whose total mass is 0 the call changes neither mass nor
\* mass_components, for any amount.
C8_ZeroMassNoOp ==
    (rm.called /\ SumSeq(rm.data.mass) = 0) => rm.out = rm.data

(***************************************************************************)
(* Skim.  barge_arrival is "datetime" (a datetime.datetime, what the       *)
(* schema's LocalDateTime yields), "date" (a datetime.date) or "none".     *)
(***************************************************************************)
SkimStorages == {100, 200}
BargeArrivals == {"none", "datetime", "date"}

Skim__init__(storage, barge_arrival, throughput, timeseries) ==
    [speed |-> 1,
     storage |-> storage,
     swath_width |-> 100,
     throughput |-> throughput,
     nameplate_pump |-> 100,
     recovery |-> 50,
     barge_arrival |-> barge_arrival,
     timeseries |-> timeseries,
     is_collecting |-> FALSE,
     is_transiting |-> FALSE,
     is_offloading |-> FALSE,
     is_rig_deriging |-> FALSE,
     \* attributes that __init__ does not create
     active |-> FALSE,
     storage_remaining |-> 0,
     coverage_rate |-> 0,
     time_remaining |-> 0]

\* the ledger entries Skim.prepare_for_model_run registers
SkimLedgerReset ==
    [skimmed |-> 0,
     id |-> [fluid_collected |-> 0, emulsion_collected |-> 0,
             oil_collected |-> 0, water_collected |-> 0,
             water_decanted |-> 0, water_retained |-> 0,
             area_covered |-> 0, storage_remaining |-> 0]]

\* swath_width * speed * 0.00233, in units of 1e-5
Skim_prepare_for_model_run(k) ==
    [k EXCEPT !.storage_remaining = k.storage,
              !.coverage_rate = k.swath_width * k.speed * 233,
              !.is_collecting = TRUE]

\* Skim._collect: the quotient of line 977 divides by
\* 63.13 * speed * thickness * throughput, and line 979 reads self.swath,
\* an attribute that no code creates
Skim_collect(k, s, ieee) ==
    IF k.speed * _get_thickness(s) * k.throughput = 0 /\ ~ieee
    THEN [op |-> k, fault |-> "ZeroDivisionError"]
    ELSE [op |-> k, fault |-> "AttributeError"]

\* Skim.prepare_for_model_step, as a whole
Skim_prepare_for_model_step(k0, s, ts, mt, ieee) ==
    LET act == _is_active(k0.timeseries, mt, ts)
        k == [k0 EXCEPT !.active = act]
    IN  IF ~act THEN [op |-> k, fault |-> "none"]
        ELSE LET k1 == [k EXCEPT !.time_remaining = ts]
             IN  IF k1.barge_arrival = "date"
                 THEN \* while self._time_remaining > 0.: with the first
                      \* call of _collect raising
                      IF k1.time_remaining > 0 /\ k1.is_collecting
                      THEN Skim_collect(k1, s, ieee)
                      ELSE [op |-> k1, fault |-> "none"]
                 ELSE \* while self_time_remaining > 0.:
                      [op |-> k1, fault |-> "NameError"]

InitSkim ==
    /\ pc = "new"
    /\ burn = Burn__init__(CHOOSE g \in BurnGeometries : TRUE, 0, << >>)
    /\ \E st \in SkimStorages, ba \in BargeArrivals, th \in Throughputs,
          tsr \in TimeSeriesSet :
          skim = Skim__init__(st, ba, th, tsr)
    /\ \E bs \in BatchSets :
          sc = [batches |-> bs, film |-> 0, frac_water |-> 0,
                mass_balance |-> [skimmed |-> 0, id |-> 0]]
    /\ time_step = 0
    /\ model_time = 0
    /\ steps = 0
    /\ runs = 0
    /\ hist = NoHist
    /\ rm = NoCall
    /\ disperse = NoDisperse
    /\ gate = NoCall
    /\ ctor = NoCall
    /\ shared = NoCall

SkimPrepareForModelRun ==
    /\ pc \in {"new", "idle"}
    /\ runs < MaxRuns
    /\ skim' = Skim_prepare_for_model_run(skim)
    /\ sc' = [sc EXCEPT !.mass_balance = SkimLedgerReset]
    /\ runs' = runs + 1
    /\ model_time' = 0
    /\ pc' = "idle"
    /\ UNCHANGED <<burn, time_step, steps, hist, rm, disperse, gate, ctor, shared>>

SkimStep ==
    /\ pc = "idle"
    /\ runs >= 1
    /\ steps < MaxSteps
    /\ \E ts \in TimeSteps, film \in Films, ieee \in BOOLEAN :
         LET s1 == [sc EXCEPT !.film = film]
             r == Skim_prepare_for_model_step(skim, s1, ts, model_time, ieee)
         IN  /\ time_step' = ts
             /\ sc' = s1
             /\ skim' = r.op
             /\ pc' = IF r.fault # "none" THEN r.fault ELSE "stepped"
    /\ UNCHANGED <<burn, model_time, steps, runs, hist, rm, disperse, gate, ctor, shared>>

\* Skim.weather_elements: it returns at once in an inactive step, and
\* prepare_for_model_step returns only in an inactive step
SkimWeatherElements ==
    /\ pc = "stepped"
    /\ ~skim.active \/ NumLE(sc) = 0
    /\ model_time' = model_time + time_step
    /\ steps' = steps + 1
    /\ pc' = "idle"
    /\ UNCHANGED <<burn, sc, skim, time_step, runs, hist, rm, disperse, gate, ctor, shared>>

NextSkim ==
    \/ SkimPrepareForModelRun
    \/ SkimStep
    \/ SkimWeatherElements

SpecSkim == InitSkim /\ [][NextSkim]_vars

SkimActiveStep == pc = "idle" /\ skim'.active

\* C21: the phase loop of every active Skim step terminates: the step
\* returns, with or without a barge arrival and whatever the oil thickness,
\* the throughput and the storage remaining.
C21_SkimStepReturns ==
    [][ SkimActiveStep => pc' = "stepped" ]_vars

\* the phase a Skim operation is in, by its flags
SkimPhases(k) ==
    (IF k.is_collecting THEN {"collecting"} ELSE {}) \cup
    (IF k.is_transiting THEN {"transiting"} ELSE {}) \cup
    (IF k.is_offloading THEN {"offloading"} ELSE {})

\* the phases that follow a phase within one step, in the order of the cycle
SkimCycle ==
    [collecting |-> {"collecting", "transiting", "offloading"},
     transiting |-> {"transiting", "offloading", "collecting"},
     offloading |-> {"offloading", "collecting", "transiting"}]

\* C22: an active Skim step takes the operation along the cycle
\* collecting -> transiting -> offloading -> collecting: it ends in exactly
\* one phase, which is not collecting when the storage has been filled, and
\* a step that ends the offloading leaves the whole storage remaining.
C22_SkimCycle ==
    [][ SkimActiveStep =>
          /\ pc' = "stepped"
          /\ \E p \in SkimPhases(skim), q \in SkimPhases(skim') :
                /\ SkimPhases(skim) = {p}
                /\ SkimPhases(skim') = {q}
                /\ q \in SkimCycle[p]
                /\ skim'.storage_remaining = 0 => q # "collecting"
                /\ (p = "offloading" /\ q = "collecting") =>
                      skim'.storage_remaining = skim'.storage ]_vars

\* C23: weather_elements after an active Skim step enters the step's
\* amounts in the ledger: 'skimmed' and the cumulative fields of the
\* operation's record do not decrease, the record's 'storage_remaining' is the
\* operation's _storage_remaining, and the substance mass falls by what
\* 'skimmed' rises by.  The step is followed by weather_elements at all.
C23_SkimLedger ==
    [][ /\ SkimActiveStep => pc' = "stepped"
        /\ (pc = "stepped" /\ skim.active /\ NumLE(sc) > 0) =>
              /\ sc'.mass_balance.skimmed >= sc.mass_balance.skimmed
              /\ sc'.mass_balance.id.oil_collected - sc.mass_balance.id.oil_collected
                    = sc'.mass_balance.skimmed - sc.mass_balance.skimmed
              /\ sc'.mass_balance.id.storage_remaining = skim.storage_remaining
              /\ SumSeq(AllMass(sc.batches)) - SumSeq(AllMass(sc'.batches))
                    = sc'.mass_balance.skimmed - sc.mass_balance.skimmed ]_vars

\* C35: an active Skim step and the call of weather_elements that follows it
\* leave the ledger and the substance batches as they were when nothing was
\* collected in the step.  (No active step collects anything: each one is
\* left by an exception before _collect assigns a per-step amount.)
C35_NothingApplied ==
    [][ (SkimActiveStep \/ (pc = "stepped" /\ skim.active)) =>
           /\ sc'.mass_balance = sc.mass_balance
           /\ sc'.batches = sc.batches ]_vars

\* an active Skim step has been left by an exception
SkimStepRaised == runs >= 1 /\ skim.active /\ pc \in Faults

\* an active Skim step has returned, so that weather_elements is called with
\* the operation active
SkimStepCompleted == runs >= 1 /\ skim.active /\ pc = "stepped"

(***************************************************************************)
(* Response._is_active on its own: one call on arguments drawn from small  *)
(* sets.  time_step / 2 is a true division (from __future__ import         *)
(* division), so half of an odd time_step is not a whole second.           *)
(***************************************************************************)
\* the start T of the interval [T, T + 2h]
ScenarioT == 3600
GateSeries ==
    { << <<ScenarioT, ScenarioT + 7200>> >>,
      << <<900, 4500>> >>,
      << <<0, 1800>>, <<7200, 9000>> >> }
GateTimes == {0, 900, ScenarioT - 60, ScenarioT, 7200, 9000, 10800}
GateTimeSteps == {900, 3600, 3601}

\* the variables of the operations while only a pure function is exercised
OperationsUnused ==
    /\ BurnUnused
    /\ skim = NoSkim
    /\ rm = NoCall
    /\ disperse = NoDisperse

InitGate ==
    /\ OperationsUnused
    /\ \E tsr \in GateSeries, mt \in GateTimes, ts \in GateTimeSteps :
          gate = [called |-> FALSE, timeseries |-> tsr, model_time |-> mt,
                  time_step |-> ts, out |-> FALSE]
    /\ ctor = NoCall
    /\ shared = NoCall

IsActive ==
    /\ ~gate.called
    /\ gate' = [gate EXCEPT
                   !.called = TRUE,
                   !.out = _is_active(gate.timeseries, gate.model_time,
                                      gate.time_step)]
    /\ UNCHANGED <<pc, burn, sc, time_step, model_time, steps, runs, hist,
                   skim, rm, disperse, ctor, shared>>

NextGate == IsActive

SpecGate == InitGate /\ [][NextGate]_vars

\* the intervals (start, stop) with start <= model_time and
\* model_time + time_step / 2 <= stop
Covering(timeseries, mt, ts) ==
    { i \in 1..Len(timeseries) :
        timeseries[i][1] <= mt /\ ts <= 2 * (timeseries[i][2] - mt) }

\* C11: _is_active returns true exactly when some interval of the
\* timeseries has start <= model_time and model_time + time_step / 2 <=
\* stop; for the interval [T, T + 2h] it is false at T - 1 min and true at
\* T with a time step of 1 h.
C11_IsActive ==
    gate.called =>
        /\ gate.out =
              (Covering(gate.timeseries, gate.model_time, gate.time_step) # {})
        /\ (/\ gate.timeseries = << <<ScenarioT, ScenarioT + 7200>> >>
            /\ gate.time_step = 3600)
           => /\ (gate.model_time = ScenarioT - 60 => ~gate.out)
              /\ (gate.model_time = ScenarioT => gate.out)

\* the call at T for the interval [T, T + 2h] with a time step of 1 h has
\* returned true
C11_Witness ==
    /\ gate.called
    /\ gate.timeseries = << <<ScenarioT, ScenarioT + 7200>> >>
    /\ gate.model_time = ScenarioT
    /\ gate.time_step = 3600
    /\ gate.out

(***************************************************************************)
(* Platform.  The capability attributes (speeds, ranges, times) are data   *)
(* of platforms.json; __init__ cannot load them (its loops unpack the keys *)
(* of a dict), so a platform has them only if the host assigned them:      *)
(* configured.  Quotients are exact for the values explored.               *)
(***************************************************************************)
PlatformTypes == {"aircraft", "vessel"}

PlatformAttributes ==
    [taxi_land_depart |-> 60,
     fuel_load |-> 60,
     max_range_no_payload |-> 200,
     max_range_with_payload |-> 150,
     cascade_transit_speed_without_payload |-> 50,
     cascade_transit_speed_with_payload |-> 50,
     refuel |-> 5,
     reload |-> 5,
     taxi_time_takeoff |-> 3,
     taxi_time_landing |-> 3,
     transit_speed |-> 25,
     max_op_time |-> 6,
     application_speed |-> 2,
     swath_width |-> 3]

\* _all_states with the last state of the cycle leading back to cascade
_all_states_back_to_cascade(type) ==
    IF type = "aircraft"
    THEN [cascade |-> "refuel",
          refuel |-> "reload",
          reload |-> "taxi_takeoff",
          taxi_takeoff |-> "en_route",
          en_route |-> "at_site",
          at_site |-> "disperse",
          disperse |-> "return",
          return |-> "landing_taxi",
          landing_taxi |-> "cascade"]
    ELSE [cascade |-> "refuel",
          refuel |-> "reload",
          reload |-> "en_route",
          en_route |-> "at_site",
          at_site |-> "disperse",
          disperse |-> "return",
          return |-> "cascade"]

\* the transition table built by Platform.__init__
_all_states(type) ==
    IF type = "aircraft"
    THEN [cascade |-> "refuel",
          refuel |-> "reload",
          reload |-> "taxi_takeoff",
          taxi_takeoff |-> "en_route",
          en_route |-> "at_site",
          at_site |-> "disperse",
          disperse |-> "return",
          return |-> "landing_taxi",
          landing_taxi |-> "refuel"]
    ELSE [cascade |-> "refuel",
          refuel |-> "reload",
          reload |-> "en_route",
          en_route |-> "at_site",
          at_site |-> "disperse",
          disperse |-> "return",
          return |-> "refuel"]

\* _stage, _ttns and _time_remaining are not created by __init__ but by
\* Disperse.prepare_for_model_run; they are read only after that
Platform__init__(type, configured) ==
    [type |-> type,
     configured |-> configured,
     state |-> "cascade",
     time_to_next |-> None,
     active |-> FALSE,
     has_payload |-> FALSE,
     disp_remaining |-> 0,
     stage |-> "",
     ttns |-> 0,
     time_remaining |-> 0]

goto_next_state(p) == [p EXCEPT !.state = _all_states(p.type)[p.state]]

cascade_time(dist, payload) ==
    LET a == PlatformAttributes
        max_range == IF payload THEN a.max_range_with_payload
                     ELSE a.max_range_no_payload
        speed == IF payload THEN a.cascade_transit_speed_with_payload
                 ELSE a.cascade_transit_speed_without_payload
    IN  IF dist > max_range
        THEN LET frac_leg == ((dist * 1000) \div max_range) % 1000
                 num_legs == dist \div max_range
                 inter_stop == (a.taxi_land_depart * 2 + a.fuel_load) \div 60
             IN  (a.taxi_land_depart \div 60)
                 + num_legs * max_range
                 + num_legs * inter_stop
                 + frac_leg * (max_range \div speed)
                 + (a.taxi_land_depart \div 60)
        ELSE (a.taxi_land_depart \div 60) * 2 + (dist \div speed)

transit_time(dist) == dist \div PlatformAttributes.transit_speed

max_onsite_time(dist) ==
    PlatformAttributes.max_op_time
        - (2 * dist) \div PlatformAttributes.transit_speed

\* the dict d that get_state_time builds; the dispersing state has no
\* duration of its own (None)
StateTimes(dist, payload) ==
    [cascade |-> Some(cascade_time(dist, payload)),
     refuel |-> Some(PlatformAttributes.refuel),
     reload |-> Some(PlatformAttributes.reload),
     taxi_takeoff |-> Some(PlatformAttributes.taxi_time_takeoff),
     en_route |-> Some(transit_time(dist)),
     at_site |-> Some(max_onsite_time(dist)),
     disperse |-> None,
     return |-> Some(transit_time(dist)),
     landing_taxi |-> Some(PlatformAttributes.taxi_time_landing)]

\* get_state_time builds the dict and has no return statement
get_state_time(p, dist, payload) == None

(***************************************************************************)
(* Disperse.  payload is read by prepare_for_model_run (self.payload) but  *)
(* assigned by no code of the class: it is None here when the attribute    *)
(* does not exist.  dosage is None unless given.  The platform is a        *)
(* Platform object.                                                        *)
(***************************************************************************)
MaxDisperseSteps == 9

DisperseTimeSteps == {4, 5, 900}
DisperseTransits == {50}
CascadeDistances == {100, 500}
Dosages == {None, Some(5)}
Payloads == {None, Some(100)}

\* a: the arguments transit, dosage, cascade_on, cascade_distance,
\* timeseries and platform, and the payload attribute
Disperse__init__(a) ==
    [transit |-> a.transit,
     pass_length |-> 4,
     dosage |-> a.dosage,
     cascade_on |-> a.cascade_on,
     cascade_distance |-> a.cascade_distance,
     timeseries |-> a.timeseries,
     cur_state |-> None,
     prev_state |-> None,
     ttns |-> 0,
     payload |-> a.payload,
     platform |-> a.platform]

Disperse_prepare_for_model_run(dp) ==
    LET p == [dp.platform EXCEPT !.active = FALSE,
                                 !.disp_remaining = 0,
                                 !.time_remaining = 0]
    IN  IF dp.cascade_on
        THEN LET p1 == [p EXCEPT !.stage = "cascade"]
             IN  IF ~p1.configured
                 THEN Raise([dp EXCEPT !.platform = p1], "AttributeError")
                 ELSE Ok([dp EXCEPT !.platform =
                            [p1 EXCEPT !.ttns =
                                cascade_time(dp.cascade_distance, FALSE)]])
        ELSE LET p1 == [p EXCEPT !.stage = "en_route"]
             IN  IF dp.payload = None
                 THEN Raise([dp EXCEPT !.platform = p1], "AttributeError")
                 ELSE LET p2 == [p1 EXCEPT !.disp_remaining = dp.payload[1]]
                      IN  IF ~p2.configured
                          THEN Raise([dp EXCEPT !.platform = p2],
                                     "AttributeError")
                          ELSE Ok([dp EXCEPT !.platform =
                                     [p2 EXCEPT !.ttns =
                                         transit_time(dp.transit)]])

\* the platform is configured whenever prepare_for_model_run has returned,
\* so get_state_time and the reads of application_speed and swath_width do
\* not raise
Disperse_prepare_for_model_step(dp, ts) ==
    LET p == [dp.platform EXCEPT !.ttns = @ - ts]
    IN  IF p.ttns < 0
        THEN LET p1 == goto_next_state(p)
                 st == get_state_time(p1, dp.transit, p1.has_payload)
             IN  IF st = None /\ dp.dosage = None
                 THEN \* desired_dosage * p.application_speed
                      Raise([dp EXCEPT !.platform = p1], "TypeError")
                 ELSE Ok([dp EXCEPT !.platform = [p1 EXCEPT !.ttns = 5]])
        ELSE IF p.ttns = 0
        THEN Ok([dp EXCEPT !.platform =
                    [goto_next_state(p) EXCEPT !.ttns = 5]])
        ELSE Ok([dp EXCEPT !.platform = p])

InitDisperse ==
    /\ BurnUnused
    /\ skim = NoSkim
    /\ rm = NoCall
    /\ gate = NoCall
    /\ ctor = NoCall
    /\ shared = NoCall
    /\ \E tr \in DisperseTransits, ds \in Dosages, co \in BOOLEAN,
          cd \in CascadeDistances, tsr \in TimeSeriesSet, pl \in Payloads,
          ty \in PlatformTypes, cf \in BOOLEAN :
          disperse = Disperse__init__(
                         [transit |-> tr, dosage |-> ds, cascade_on |-> co,
                          cascade_distance |-> cd, timeseries |-> tsr,
                          payload |-> pl,
                          platform |-> Platform__init__(ty, cf)])

DispersePrepareForModelRun ==
    /\ pc \in {"new", "idle"}
    /\ runs < MaxRuns
    /\ LET r == Disperse_prepare_for_model_run(disperse)
       IN  /\ disperse' = r.op
           /\ pc' = IF r.fault # "none" THEN r.fault ELSE "idle"
    /\ runs' = runs + 1
    /\ model_time' = 0
    /\ UNCHANGED <<burn, sc, time_step, steps, hist, skim, rm, gate, ctor, shared>>

\* prepare_for_model_step, then the host advances the model time
\* (Disperse defines no weather_elements)
DisperseStep ==
    /\ pc = "idle"
    /\ runs >= 1
    /\ steps < MaxDisperseSteps
    /\ \E ts \in DisperseTimeSteps :
         LET r == Disperse_prepare_for_model_step(disperse, ts)
         IN  /\ time_step' = ts
             /\ disperse' = r.op
             /\ pc' = IF r.fault # "none" THEN r.fault ELSE "idle"
             /\ model_time' = model_time + ts
    /\ steps' = steps + 1
    /\ UNCHANGED <<burn, sc, runs, hist, skim, rm, gate, ctor, shared>>

NextDisperse ==
    \/ DispersePrepareForModelRun
    \/ DisperseStep

SpecDisperse == InitDisperse /\ [][NextDisperse]_vars

(***************************************************************************)
(* Properties of Platform and Disperse                                     *)
(***************************************************************************)
\* a call of Disperse.prepare_for_model_step that returns
DisperseStepReturns == steps' = steps + 1 /\ pc' = "idle"

\* C14: a Disperse step in which _is_active is false for the operation's
\* timeseries changes neither the platform's state nor its
\* time_to_next_state.
C14_DisperseGated ==
    [][ (/\ DisperseStepReturns
         /\ ~_is_active(disperse.timeseries, model_time, time_step'))
        => /\ disperse'.platform.state = disperse.platform.state
           /\ disperse'.platform.ttns = disperse.platform.ttns ]_vars

\* the successions of the per-type cycles
AircraftCycle ==
    { <<"cascade", "refuel">>, <<"refuel", "reload">>,
      <<"reload", "taxi_takeoff">>, <<"taxi_takeoff", "en_route">>,
      <<"en_route", "at_site">>, <<"at_site", "disperse">>,
      <<"disperse", "return">>, <<"return", "landing_taxi">>,
      <<"landing_taxi", "refuel">> }
VesselCycle ==
    { <<"cascade", "refuel">>, <<"refuel", "reload">>,
      <<"reload", "en_route">>, <<"en_route", "at_site">>,
      <<"at_site", "disperse">>, <<"disperse", "return">>,
      <<"return", "refuel">> }

\* C16: a platform starts in cascade, and every change of its state is a
\* succession of the cycle of its type: for an aircraft cascade, refuel,
\* reload, taxi_takeoff, en_route, at_site, disperse, return, landing_taxi
\* and refuel again; for a vessel cascade, refuel, reload, en_route,
\* at_site, disperse, return and refuel again.
C16_TransitionTable ==
    /\ disperse.platform.state = "cascade"
    /\ [][ disperse'.platform.state # disperse.platform.state =>
             <<disperse.platform.state, disperse'.platform.state>> \in
                 (IF disperse.platform.type = "aircraft"
                  THEN AircraftCycle ELSE VesselCycle) ]_vars

\* an aircraft that has advanced in each of nine steps of 900 s is in
\* refuel again, after landing_taxi
C16_Witness ==
    /\ runs = 1
    /\ steps = 9
    /\ model_time = 9 * 900
    /\ disperse.platform.type = "aircraft"
    /\ disperse.cascade_on
    /\ disperse.cascade_distance = 100
    /\ disperse.platform.state = "refuel"

\* the duration of a state, 0 for the state without one
Duration(st) == IF st = None THEN 0 ELSE st[1]

\* the sum of the durations of the states of the vessel cycle
VesselCycleTime(dist) ==
    LET d == StateTimes(dist, FALSE)
    IN  Duration(d["cascade"]) + Duration(d["refuel"]) + Duration(d["reload"])
        + Duration(d["en_route"]) + Duration(d["at_site"])
        + Duration(d["disperse"]) + Duration(d["return"])

\* C17: a vessel stepped by Disperse from the start of a run is in the
\* state cascade at the step boundary at which the elapsed time equals the
\* sum of the durations of its states.
C17_CycleClosure ==
    (/\ pc = "idle"
     /\ runs = 1
     /\ disperse.platform.type = "vessel"
     /\ model_time = VesselCycleTime(disperse.transit))
    => disperse.platform.state = "cascade"

\* C18: a Disperse step reduces time_to_next_state by the step time; when
\* the result is positive the state stays, otherwise the platform advances
\* to the next state and time_to_next_state is that state's duration minus
\* the overshoot.
C18_TimeToNextState ==
    [][ DisperseStepReturns =>
          LET p == disperse.platform
              q == disperse'.platform
              left == p.ttns - time_step'
              d == StateTimes(disperse.transit, p.has_payload)
          IN  IF left > 0
              THEN q.state = p.state /\ q.ttns = left
              ELSE /\ q.state = _all_states(p.type)[p.state]
                   /\ q.ttns = Duration(d[q.state]) + left ]_vars

Max(a, b) == IF a >= b THEN a ELSE b

\* C19: in a step that the platform begins in the disperse state,
\* disp_remaining is reduced by the achieved pump rate (dosage *
\* application_speed * swath_width) times the time spent dispersing, but
\* not below 0, and a platform whose disp_remaining is 0 after the step is
\* in the state return.
C19_PayloadDepletion ==
    [][ (/\ DisperseStepReturns
         /\ disperse.platform.state = "disperse"
         /\ disperse.dosage # None)
        => LET p == disperse.platform
               q == disperse'.platform
               rate == disperse.dosage[1]
                         * PlatformAttributes.application_speed
                         * PlatformAttributes.swath_width
               dispersing == Min(time_step', p.ttns)
           IN  /\ q.disp_remaining =
                     Max(0, p.disp_remaining - rate * dispersing)
               /\ (q.disp_remaining = 0 => q.state = "return") ]_vars

(***************************************************************************)
(* Construction with a units argument.  A units dictionary is a function   *)
(* from property names to unit names.  The valid unit sets come from       *)
(* gnome._valid_units, which reads them from the unit conversion package;  *)
(* each is represented by the units of Burn's and Skim's _si_units, and    *)
(* the units explored belong to one quantity category each.                *)
(***************************************************************************)
_valid_dist_units == {"ft", "in"}
_valid_vel_units == {"kts"}
_valid_vol_units == {"bbl"}
_valid_dis_units == {"gpm"}
_valid_time_units == {"sec"}

Burn_si_units ==
    [offset |-> "ft", boom_length |-> "ft", boom_draft |-> "in", speed |-> "kts"]

\* Burn._units_type: the valid units of each property
Burn_units_type ==
    [offset |-> _valid_dist_units, boom_length |-> _valid_dist_units,
     boom_draft |-> _valid_dist_units, speed |-> _valid_vel_units]

Skim_si_units ==
    [storage |-> "bbl", decant_pump |-> "gpm", nameplate_pump |-> "gpm",
     speed |-> "kts", swath_width |-> "ft", transit_time |-> "sec",
     offload |-> "sec", rig_time |-> "sec"]

\* Skim._units_types: the valid units of each property
Skim_units_types ==
    [storage |-> _valid_vol_units, decant_pump |-> _valid_dis_units,
     nameplate_pump |-> _valid_dis_units, speed |-> _valid_vel_units,
     swath_width |-> _valid_dist_units, transit_time |-> _valid_time_units,
     offload |-> _valid_time_units, rig_time |-> _valid_time_units]

\* the _units dictionary after self._units[prop] = unit for the items of
\* u_dict
UnitsUpdated(_units, u_dict) ==
    [prop \in DOMAIN _units \cup DOMAIN u_dict |->
        IF prop \in DOMAIN u_dict THEN u_dict[prop] ELSE _units[prop]]

\* the orders in which the for loop may visit the items of a dictionary
ItemOrders(u_dict) ==
    { order \in [1..Cardinality(DOMAIN u_dict) -> DOMAIN u_dict] :
         \A i, j \in 1..Cardinality(DOMAIN u_dict) :
            order[i] = order[j] => i = j }

\* the setter of Response.units, for an object whose _units_type is given:
\* the loop over the items of u_dict in the given order, each item checked
\* and then stored
RECURSIVE Response_units(_, _, _, _)
Response_units(_units_type, _units, u_dict, order) ==
    IF order = << >> THEN Ok(_units)
    ELSE LET prop == Head(order)
             unit == u_dict[prop]
         IN  IF prop \in DOMAIN _units_type /\ unit \notin _units_type[prop]
             THEN Raise(_units, "InvalidUnitError")
             ELSE Response_units(_units_type,
                                 UnitsUpdated(_units, [p \in {prop} |-> unit]),
                                 u_dict, Tail(order))

\* Burn.__init__: self._units = dict(self._si_units); self.units = units
Burn__init__units(units, order) ==
    Response_units(Burn_units_type, Burn_si_units, units, order)

\* Skim.__init__: self._units = dict(self._si_units); the argument units is
\* not used
Skim__init__units(units) == Ok(Skim_si_units)

\* operation.units = u_dict on a constructed operation; a Skim object has no
\* attribute _units_type, which the loop reads at its first item
AssignUnitsTo(cls, _units, u_dict, order) ==
    IF cls = "Burn" THEN Response_units(Burn_units_type, _units, u_dict, order)
    ELSE IF order = << >> THEN Ok(_units)
    ELSE Raise(_units, "AttributeError")

UnitNames == {"ft", "kts", "bbl"}
UnitProps == [Burn |-> {"offset", "boom_draft", "speed"},
              Skim |-> {"storage", "swath_width", "speed"}]
UnitsArguments(cls) ==
    UNION { [props -> UnitNames] : props \in SUBSET UnitProps[cls] }

\* ctor: the class and the units argument of the constructor call, its
\* outcome (fault, _units), and one later assignment to units (assign) with
\* the _units found (before) and its outcome (assign_fault, _units)
InitUnits ==
    /\ OperationsUnused
    /\ gate = NoCall
    /\ shared = NoCall
    /\ \E cls \in {"Burn", "Skim"} : \E units \in UnitsArguments(cls) :
          ctor = [called |-> FALSE, cls |-> cls, units |-> units,
                  fault |-> "none", _units |-> << >>,
                  assigned |-> FALSE, assign |-> << >>, before |-> << >>,
                  assign_fault |-> "none"]

\* Burn(..., units=units) or Skim(..., units=units)
Construct ==
    /\ ~ctor.called
    /\ \E order \in ItemOrders(ctor.units) :
         LET r == IF ctor.cls = "Burn"
                  THEN Burn__init__units(ctor.units, order)
                  ELSE Skim__init__units(ctor.units)
         IN  ctor' = [ctor EXCEPT !.called = TRUE, !.fault = r.fault,
                                  !._units = IF r.fault = "none" THEN r.op
                                             ELSE << >>]
    /\ UNCHANGED <<pc, burn, sc, time_step, model_time, steps, runs, hist,
                   skim, rm, disperse, gate, shared>>

\* operation.units = u_dict, once, on an operation that was constructed
AssignUnits ==
    /\ ctor.called
    /\ ctor.fault = "none"
    /\ ~ctor.assigned
    /\ \E u_dict \in UnitsArguments(ctor.cls) : \E order \in ItemOrders(u_dict) :
         LET r == AssignUnitsTo(ctor.cls, ctor._units, u_dict, order)
         IN  ctor' = [ctor EXCEPT !.assigned = TRUE, !.assign = u_dict,
                                  !.before = ctor._units,
                                  !.assign_fault = r.fault,
                                  !._units = r.op]
    /\ UNCHANGED <<pc, burn, sc, time_step, model_time, steps, runs, hist,
                   skim, rm, disperse, gate, shared>>

NextUnits ==
    \/ Construct
    \/ AssignUnits

SpecUnits == InitUnits /\ [][NextUnits]_vars

\* the valid units of each property of the class
UnitsType(cls) == IF cls = "Burn" THEN Burn_units_type ELSE Skim_units_types

\* the items of a units dictionary that are outside the valid set of their
\* property
InvalidItems(cls, u_dict) ==
    { prop \in DOMAIN u_dict :
         prop \in DOMAIN UnitsType(cls) /\ u_dict[prop] \notin UnitsType(cls)[prop] }

\* C24: the construction of a Burn or Skim operation raises the invalid-unit
\* error exactly when the units argument assigns some property a unit
\* outside the valid set of the property's category, and a constructed
\* operation holds no unit outside the valid set of its property.
C24_InvalidUnitsRejected ==
    ctor.called =>
       /\ (ctor.fault = "InvalidUnitError") <=>
             (InvalidItems(ctor.cls, ctor.units) # {})
       /\ ctor.fault = "none" => InvalidItems(ctor.cls, ctor._units) = {}

\* the part of C24 that holds of Burn
BurnUnitsRejected ==
    (ctor.called /\ ctor.cls = "Burn") =>
       /\ (ctor.fault = "InvalidUnitError") <=>
             (InvalidItems(ctor.cls, ctor.units) # {})
       /\ ctor.fault = "none" =>
             /\ InvalidItems(ctor.cls, ctor._units) = {}
             /\ ~ctor.assigned =>
                   \A prop \in DOMAIN ctor.units :
                      ctor._units[prop] = ctor.units[prop]

\* C38: an assignment to units that raises InvalidUnitError leaves the
\* operation's units as they were: no item of the dictionary has been
\* stored, in whatever order the items were visited.
C38_RejectedAssignmentStoresNothing ==
    (ctor.assigned /\ ctor.assign_fault = "InvalidUnitError") =>
        ctor._units = ctor.before

\* an assignment that raises InvalidUnitError is one with an invalid item,
\* and one that returns has stored every item
AssignmentChecked ==
    (ctor.assigned /\ ctor.cls = "Burn") =>
        /\ (ctor.assign_fault = "InvalidUnitError") <=>
              (InvalidItems(ctor.cls, ctor.assign) # {})
        /\ ctor.assign_fault = "none" =>
              ctor._units = UnitsUpdated(ctor.before, ctor.assign)

(***************************************************************************)
(* Two Burn operations with the ids 1 and 2 on one spill container: in one *)
(* step the host calls weather_elements of each, in either order.  The     *)
(* ledger has the totals 'burned' and 'boomed' and one entry per id.       *)
(***************************************************************************)
\* Burn.weather_elements assigning the total 'burned' instead of adding to it
Burn_weather_elements_from_zero(active, batches, mb, ts_collected, ts_burned) ==
    IF ~active \/ Len(AllMass(batches)) = 0
    THEN [batches |-> batches, mass_balance |-> mb]
    ELSE BurnWeatherBatches(batches, [mb EXCEPT !.burned = 0],
                            ts_collected, ts_burned)

\* Burn.weather_elements, on the batches and the ledger as the operation
\* sees it (its own entry under id)
Burn_weather_elements(active, batches, mb, ts_collected, ts_burned) ==
    IF ~active \/ Len(AllMass(batches)) = 0
    THEN [batches |-> batches, mass_balance |-> mb]
    ELSE BurnWeatherBatches(batches, mb, ts_collected, ts_burned)

SharedIds == {1, 2}
SharedCollected == {0, 5}
SharedBurned == {0, 3}
SharedOperations ==
    [active : BOOLEAN, ts_collected : SharedCollected, ts_burned : SharedBurned]
\* the ledger at the start of the step
SharedLedgers ==
    { [burned |-> 0, boomed |-> 0, ids |-> <<0, 0>>],
      [burned |-> 9, boomed |-> 11, ids |-> <<13, 7>>] }

InitShared ==
    /\ OperationsUnused
    /\ gate = NoCall
    /\ ctor = NoCall
    /\ \E o1 \in SharedOperations, o2 \in SharedOperations,
          mb \in SharedLedgers, bs \in BatchSets :
          shared = [called |-> FALSE, ops |-> <<o1, o2>>, start |-> mb,
                    mass_balance |-> mb, batches |-> bs, done |-> << >>]

\* the host calls weather_elements of the operation with the id i
SharedWeatherElements(i) ==
    /\ \A k \in 1..Len(shared.done) : shared.done[k] # i
    /\ LET o == shared.ops[i]
           mb == shared.mass_balance
           w == Burn_weather_elements(o.active, shared.batches,
                   [burned |-> mb.burned, boomed |-> mb.boomed, id |-> mb.ids[i]],
                   o.ts_collected, o.ts_burned)
       IN  shared' = [shared EXCEPT
                         !.called = TRUE,
                         !.batches = w.batches,
                         !.mass_balance =
                             [burned |-> w.mass_balance.burned,
                              boomed |-> w.mass_balance.boomed,
                              ids |-> [mb.ids EXCEPT ![i] = w.mass_balance.id]],
                         !.done = Append(@, i)]
    /\ UNCHANGED <<pc, burn, sc, time_step, model_time, steps, runs, hist,
                   skim, rm, disperse, gate, ctor>>

NextShared == \E i \in SharedIds : SharedWeatherElements(i)

SpecShared == InitShared /\ [][NextShared]_vars

\* the batches of the container that hold elements
FilledBatches(batches) == { k \in 1..Len(batches) : Len(batches[k].mass) > 0 }

\* what the operation i adds to a total in one call: the amount once for
\* every batch that holds elements, when the operation is active
SharedAdded(i, amount) ==
    IF shared.ops[i].active
    THEN Cardinality(FilledBatches(shared.batches)) * amount
    ELSE 0

SharedDone == { shared.done[k] : k \in 1..Len(shared.done) }

\* C25: with two Burn operations on one ledger, after the calls of
\* weather_elements made so far in a step, in whichever order, each total is
\* its value at the start of the step plus what the called operations added
\* ('burned': the burned amounts; 'boomed': the collected less the burned
\* amounts), and the entry of each id is its value at the start plus what
\* that operation alone collected: no call assigns a total or writes the
\* other operation's entry.
C25_SharedLedger ==
    shared.called =>
       LET added(i, amount) == IF i \in SharedDone THEN SharedAdded(i, amount) ELSE 0
           c(i) == added(i, shared.ops[i].ts_collected)
           b(i) == added(i, shared.ops[i].ts_burned)
       IN  /\ shared.mass_balance.burned = shared.start.burned + b(1) + b(2)
           /\ shared.mass_balance.boomed =
                 shared.start.boomed + c(1) + c(2) - b(1) - b(2)
           /\ \A i \in SharedIds :
                 shared.mass_balance.ids[i] = shared.start.ids[i] + c(i)

\* both operations have collected and burned, the second-numbered one first,
\* on a ledger that held amounts before the step
C25_Witness ==
    /\ shared.called
    /\ shared.done = <<2, 1>>
    /\ shared.start.burned > 0
    /\ \A i \in SharedIds :
          /\ shared.ops[i].active
          /\ shared.ops[i].ts_collected > 0
          /\ shared.ops[i].ts_burned > 0
    /\ shared.mass_balance.ids[1] > shared.start.ids[1]
    /\ shared.mass_balance.ids[2] > shared.start.ids[2]

\* prepare_for_model_run has returned and no step has been taken
DisperseRunPrepared == pc = "idle" /\ runs >= 1 /\ steps = 0

\* C36: after prepare_for_model_run the state the platform makes its first
\* transition from is the stage of the configuration: cascade with
\* cascade_on, en_route with the payload as _disp_remaining without it, and
\* without cascade_on the first change of state leads to at_site.
C36_FirstStage ==
    /\ DisperseRunPrepared =>
          IF disperse.cascade_on
          THEN disperse.platform.state = "cascade"
          ELSE /\ disperse.platform.state = "en_route"
               /\ disperse.platform.disp_remaining = disperse.payload[1]
    /\ [][ (/\ pc = "idle" /\ steps = 0 /\ ~disperse.cascade_on
            /\ disperse'.platform.state # disperse.platform.state) =>
              disperse'.platform.state = "at_site" ]_vars

\* what prepare_for_model_run does assign: _stage and _disp_remaining
DisperseStageAssigned ==
    DisperseRunPrepared =>
       IF disperse.cascade_on
       THEN disperse.platform.stage = "cascade" /\ disperse.platform.state = "cascade"
       ELSE /\ disperse.platform.stage = "en_route"
            /\ disperse.platform.disp_remaining = disperse.payload[1]

\* the state n transitions after the state s
RECURSIVE StateAfter(_, _, _)
StateAfter(type, s, n) ==
    IF n = 0 THEN s ELSE StateAfter(type, _all_states(type)[s], n - 1)

\* from every state of the table some number of transitions leads to
\* disperse
LeadsToDisperse(type) ==
    \A s \in DOMAIN _all_states(type) :
       \E n \in 1..Cardinality(DOMAIN _all_states(type)) :
          StateAfter(type, s, n) = "disperse"

\* the state is a key of the table of the platform's type, and a vessel is
\* in neither of the two states of an aircraft on the ground
StateInTable ==
    /\ disperse.platform.state \in DOMAIN _all_states(disperse.platform.type)
    /\ disperse.platform.type = "vessel" =>
          disperse.platform.state \notin {"taxi_takeoff", "landing_taxi"}

\* a returning step either makes the transition of the table, with 5 s to
\* the next one, or takes its time_step from the time to the next transition
StepAdvancesOrWaits ==
    LET p == disperse.platform
        q == disperse'.platform
    IN  IF p.ttns - time_step' <= 0
        THEN q.state = _all_states(p.type)[p.state] /\ q.ttns = 5
        ELSE q.state = p.state /\ q.ttns = p.ttns - time_step'

\* a call of Disperse.prepare_for_model_step
DisperseStepCalled == pc = "idle" /\ steps' = steps + 1

\* C37: the platform's state is always a key of the transition table of its
\* type, a vessel is never in taxi_takeoff or landing_taxi, and repeated
\* Disperse steps bring the platform to disperse again and again: every
\* step returns and either makes the table's transition or shortens the time
\* to it, and in the table every state leads to disperse.
C37_Lifecycle ==
    /\ runs >= 1 => (StateInTable /\ LeadsToDisperse(disperse.platform.type))
    /\ [][ DisperseStepCalled =>
              (pc' = "idle" /\ StepAdvancesOrWaits) ]_vars

\* C37 for the operations that were given a dosage
C37_WithDosage ==
    /\ runs >= 1 => (StateInTable /\ LeadsToDisperse(disperse.platform.type))
    /\ [][ (DisperseStepCalled /\ disperse.dosage # None) =>
              (pc' = "idle" /\ StepAdvancesOrWaits) ]_vars

====
